---- MODULE Spec2Model ----
(***************************************************************************)
(* BirdSong: playback orchestration between the background service worker  *)
(* (Orchestrator: messageHandlers.ts, playControl.ts) and the offscreen    *)
(* audio player (AudioWorker: offscreen.ts).                               *)
(*                                                                         *)
(* Every async handler is cut at its awaits: the synchronous prefix is one *)
(* action and each continuation is another.  A handler suspended in the    *)
(* search collaborator or in setupOffscreen is a record in `tasks`; one    *)
(* suspended on a request to the AudioWorker is that request in `toWorker` *)
(* and then its response in `fromWorker`.  Messages between the two        *)
(* contexts are delivered in the order they were sent.                     *)
(*                                                                         *)
(* updateState(patch) assigns the patched fields of the one BackgroundState*)
(* object that every handler and every closure holds as `state`.           *)
(***************************************************************************)
EXTENDS Integers, Sequences, FiniteSets, Bags, TLC

\* ---------------------------------------------------------------- bounds
NumBirds == 1     \* distinct birds the search collaborator can return
MaxTasks == 2     \* handlers entered and not yet returned
MaxQueue == 2     \* messages in flight from the AudioWorker
MaxTimers == 2    \* timer ids the host can have pending
MaxOrphans == 1   \* detached elements that are still sounding
MaxCallers == 3   \* handlers that can be inside setupOffscreen together

\* ---------------------------------------------------------------- values
NoBird == 0                       \* currentBird: null
Birds == 1..NumBirds
\* notFoundObj of searchBirdAudio: a Bird with a message and audioUrl ''
Sentinel == NumBirds + 1
NoTimer == 0                      \* waitingTimeout: null
TimerIds == 1..MaxTimers
NoTime == 0                       \* waitingStartTime: null
Now == 1                          \* Date.now() when the wait starts
Regions == {"JP"}
NoRecord == [saved |-> FALSE, isPlaying |-> FALSE, isPaused |-> FALSE,
             currentBird |-> NoBird, region |-> ""]

\* No getOffscreenState call, no getFullState reply, no UIClient, no
\* restore, and the useState defaults of the playback controls.
NoQuery == [pc |-> "none"]
NoReply == [kind |-> "none"]
NoUi == [phase |-> "closed"]
NoBoot == [pc |-> "none"]
NoControls == [loading |-> FALSE, isWaiting |-> FALSE]

\* The handlers that call setupOffscreen: playBirdAudio of an advance,
\* getOffscreenState of a getFullState, the restore.
Callers == 1..MaxCallers

\* OffscreenManager with no setupOffscreen call in progress.
\*   offscreenCreated : the private flag
\*   creating         : the caller whose createDocument Chrome is carrying out
\*   pc               : where each caller is inside setupOffscreen
\* What chrome.storage.sync can hold under 'autoResume'.
Preferences ==
  {[set |-> FALSE, value |-> FALSE], [set |-> TRUE, value |-> FALSE],
   [set |-> TRUE, value |-> TRUE]}

\* The preference never set and the OptionsSection not mounted.
\*   autoResume : the value in chrome.storage.sync
\*   phase      : "closed", "loading" (mounted, loadSettings pending), "shown"
\*   shown      : the autoResume state behind the checkbox
NoSettings ==
  [autoResume |-> [set |-> FALSE, value |-> FALSE], phase |-> "closed",
   shown |-> TRUE]

\* Ghost: the advances that audioError events have started, counted by the
\* specifications that follow one clip.
NoCount == [counting |-> FALSE, n |-> 0]

NoSetup ==
  [offscreenCreated |-> FALSE, creating |-> {}, pc |-> [c \in Callers |-> "idle"]]

\* The audio element reference of offscreen.ts; loaded = FALSE is null.
\*   paused  : HTMLMediaElement.paused
\*   pos     : 0 when currentTime = 0, 1 when currentTime > 0
\*   ended   : HTMLMediaElement.ended
\*   pending : the play() promise not yet settled: "initial" is the one
\*             playAudio awaits, "resume" the one resumeAudio chained on
NoAudio == [loaded |-> FALSE, paused |-> TRUE, pos |-> 0, ended |-> FALSE,
            pending |-> "none"]

VARIABLES
  \* BackgroundState (messageHandlers.ts)
  currentBird, isPlaying, isPaused, region,
  isWaiting, waitingTimeout, waitingStartTime,
  \* Orchestrator host
  timers,        \* pending setTimeout ids
  tasks,         \* bag of handlers suspended in the search or in setupOffscreen
  stored,        \* chrome.storage.local playbackState
  popupEvents,   \* notifyPopup calls made by the last step
  offscreenDoc,  \* the offscreen document exists
  \* channels
  toWorker,      \* Orchestrator -> AudioWorker requests
  fromWorker,    \* AudioWorker -> Orchestrator: offscreenEvent messages and responses
  \* AudioWorker (offscreen.ts)
  audioElement,  \* audioElement
  blobUrl,       \* currentBlobUrl # null
  downloads,     \* bag of playAudio calls suspended in downloadAudioAsBlob
  aborted,       \* a pause rejected the play() promise playAudio awaits; its catch block is due
  orphans,       \* elements still sounding that audioElement no longer names
  \* history
  stopped,       \* "" until a stop is handled; then "waiting" if a stop found the
                 \* session waiting, else "stop"; "" again at the next start
  lastStep,      \* which event-handling branch ran last ("" for any other step)
  \* scope
  persisting,    \* the writes to chrome.storage.local are recorded in `stored`
  tracking,      \* the stops handled are recorded in `stopped`
  \* AudioWorker history
  auditing,      \* the two histories below are recorded
  workerStopped, \* stopAudio was handled and no playAudio received since
  blobLeaked,    \* a blob URL was overwritten without being revoked
  \* state queries, UIClient, service worker start
  stateQuery,    \* the getOffscreenState call in progress
  fullState,     \* what the last getFullState returned
  ui,            \* the UIClient (BirdSongApp with useOffscreenSync)
  boot,          \* the restore that runs when the service worker starts
  controls,      \* PlaybackControls: the loading prop and its own isWaiting
  commands,      \* bag of UI commands sent and not yet settled
  setup,         \* OffscreenManager and the callers inside setupOffscreen
  errorAdvances, \* ghost: advances started by audioError events
  settings       \* chrome.storage.sync autoResume and the OptionsSection

session == <<currentBird, isPlaying, isPaused, region,
             isWaiting, waitingTimeout, waitingStartTime>>
worker == <<audioElement, blobUrl, downloads, aborted, orphans>>
audit == <<auditing, workerStopped, blobLeaked>>
periphery == <<stateQuery, fullState, ui, boot, controls, commands, setup,
               errorAdvances, settings>>
vars == <<currentBird, isPlaying, isPaused, region, isWaiting,
          waitingTimeout, waitingStartTime, timers, tasks, stored,
          popupEvents, offscreenDoc, toWorker, fromWorker, audioElement,
          blobUrl, downloads, aborted, orphans, stopped, lastStep,
          persisting, tracking, audit, periphery>>

\* ---------------------------------------------------------------- helpers
Min(S) == CHOOSE x \in S : \A y \in S : x <= y

FreeTimerIds == TimerIds \ timers

One(x) == SetToBag({x})

\* Handlers that have been entered and have not returned: suspended in the
\* search or in setupOffscreen, or on a request whose response they await.
Responses == Len(SelectSeq(fromWorker, LAMBDA m : m.type = "response"))
InFlight ==
  BagCardinality(tasks) + Len(toWorker) + Responses
  + BagCardinality(downloads)
  + (IF audioElement.loaded /\ audioElement.pending = "initial" THEN 1 ELSE 0)
  + (IF aborted THEN 1 ELSE 0)

\* A handler that reached `await searchBirdAudio(...)`.
Searching == [pc |-> "search", bird |-> NoBird]

Event(e) == [type |-> "offscreenEvent", name |-> e]
Response(req) == [type |-> "response", name |-> req]

\* saveState: the record written to chrome.storage.local.
Snapshot ==
  [saved |-> TRUE, isPlaying |-> isPlaying, isPaused |-> isPaused,
   currentBird |-> currentBird, region |-> region]

\* chrome.storage.local.set({playbackState: rec}).  Nothing in the running
\* session reads the record back, so a specification that does not look at
\* storage leaves it out (persisting = FALSE).
StorageSet(rec) == stored' = IF persisting THEN rec ELSE stored

\* ---------------------------------------------------------------- Init
\* The state after the service worker started with no stored session.
Start ==
  /\ currentBird = NoBird /\ isPlaying = FALSE /\ isPaused = FALSE
  /\ region = "" /\ isWaiting = FALSE
  /\ waitingTimeout = NoTimer /\ waitingStartTime = NoTime
  /\ timers = {} /\ tasks = EmptyBag /\ stored = NoRecord
  /\ popupEvents = <<>> /\ offscreenDoc = FALSE
  /\ toWorker = <<>> /\ fromWorker = <<>>
  /\ audioElement = NoAudio /\ blobUrl = FALSE /\ downloads = EmptyBag
  /\ aborted = FALSE /\ orphans = 0
  /\ stopped = "" /\ lastStep = ""
  /\ workerStopped = FALSE /\ blobLeaked = FALSE
  /\ stateQuery = NoQuery /\ fullState = NoReply
  /\ ui = NoUi /\ boot = NoBoot
  /\ controls = NoControls /\ commands = EmptyBag
  /\ setup = NoSetup /\ errorAdvances = NoCount
  /\ settings = NoSettings

Init == Start /\ persisting = FALSE /\ tracking = FALSE /\ auditing = FALSE

InitStorage == Start /\ persisting = TRUE /\ tracking = FALSE /\ auditing = FALSE

InitStops == Start /\ persisting = FALSE /\ tracking = TRUE /\ auditing = FALSE

InitWorker == Start /\ persisting = FALSE /\ tracking = FALSE /\ auditing = TRUE

\* ------------------------------------------------ Orchestrator: commands
\* playNext up to `await searchBirdAudio(state.region)`.
PlayNext ==
  /\ InFlight < MaxTasks
  /\ tasks' = tasks (+) One(Searching)

\* handleStart up to `await searchBirdAudio(region)`.
CmdStart ==
  /\ InFlight < MaxTasks
  /\ \E r \in Regions : region' = r
  /\ isPlaying' = TRUE /\ isPaused' = FALSE
  /\ tasks' = tasks (+) One(Searching)
  /\ popupEvents' = <<>> /\ stopped' = "" /\ lastStep' = ""
  /\ UNCHANGED <<currentBird, isWaiting, waitingTimeout, waitingStartTime,
                 timers, stored, offscreenDoc, toWorker, fromWorker, worker,
                 persisting, tracking, audit, periphery>>

\* Mutant of SendSwallowed: the `.catch(() => {})` is gone, so without an
\* offscreen document the rejected send ends the handler before saveState.
SendRejects(type, playing, paused, bird) ==
  IF offscreenDoc
    THEN /\ InFlight < MaxTasks
         /\ toWorker' = Append(toWorker, [type |-> type, bird |-> NoBird])
         /\ stored' = stored
    ELSE /\ toWorker' = toWorker
         /\ stored' = stored

\* `await chrome.runtime.sendMessage({type}).catch(() => {}); await saveState()`
\* of handleStop, handlePause and handleResume.  With an offscreen document
\* the request is queued and the handler suspends on the response; without
\* one the send rejects, the rejection is swallowed and saveState runs on.
\* The state saved is the one the synchronous prefix has just written.
SendSwallowed(type, playing, paused, bird) ==
  IF offscreenDoc
    THEN /\ InFlight < MaxTasks
         /\ toWorker' = Append(toWorker, [type |-> type, bird |-> NoBird])
         /\ stored' = stored
    ELSE /\ toWorker' = toWorker
         /\ StorageSet([saved |-> TRUE, isPlaying |-> playing,
                        isPaused |-> paused, currentBird |-> bird,
                        region |-> region])

\* handleStop up to `await chrome.runtime.sendMessage({type:'stopAudio'})`.
CmdStop ==
  /\ isPlaying' = FALSE /\ isPaused' = FALSE /\ currentBird' = NoBird
  /\ IF isWaiting /\ waitingTimeout # NoTimer
       THEN /\ timers' = timers \ {waitingTimeout}
            /\ isWaiting' = FALSE
            /\ waitingTimeout' = NoTimer
            /\ waitingStartTime' = NoTime
            /\ popupEvents' = <<"waitingCancelled">>
       ELSE /\ UNCHANGED <<timers, isWaiting, waitingTimeout, waitingStartTime>>
            /\ popupEvents' = <<>>
  /\ SendSwallowed("stopAudio", FALSE, FALSE, NoBird)
  /\ stopped' = IF ~tracking THEN stopped
                ELSE IF isWaiting \/ stopped = "waiting" THEN "waiting"
                ELSE "stop"
  /\ lastStep' = ""
  /\ UNCHANGED <<region, tasks, offscreenDoc, fromWorker, worker, persisting, tracking, audit, periphery>>

\* handlePause up to `await chrome.runtime.sendMessage({type:'pauseAudio'})`.
CmdPause ==
  /\ isPaused' = TRUE
  /\ SendSwallowed("pauseAudio", isPlaying, TRUE, currentBird)
  /\ popupEvents' = <<>> /\ lastStep' = ""
  /\ UNCHANGED <<currentBird, isPlaying, region, isWaiting, waitingTimeout,
                 waitingStartTime, timers, tasks, offscreenDoc, fromWorker,
                 worker, stopped, persisting, tracking, audit, periphery>>

\* handleResume up to `await chrome.runtime.sendMessage({type:'resumeAudio'})`.
CmdResume ==
  /\ isPaused' = FALSE
  /\ SendSwallowed("resumeAudio", isPlaying, FALSE, currentBird)
  /\ popupEvents' = <<>> /\ lastStep' = ""
  /\ UNCHANGED <<currentBird, isPlaying, region, isWaiting, waitingTimeout,
                 waitingStartTime, timers, tasks, offscreenDoc, fromWorker,
                 worker, stopped, persisting, tracking, audit, periphery>>

\* Mutant of CmdNext: next takes the wait-then-advance path of audioEnded
\* and arms the wait timer instead of searching.
CmdNextWaits ==
  /\ ~isWaiting
  /\ FreeTimerIds # {}
  /\ isWaiting' = TRUE
  /\ waitingStartTime' = Now
  /\ popupEvents' = <<"waitingStarted">>
  /\ timers' = timers \cup {Min(FreeTimerIds)}
  /\ waitingTimeout' = Min(FreeTimerIds)
  /\ lastStep' = "next"
  /\ UNCHANGED <<currentBird, isPlaying, isPaused, region, tasks, stored,
                 offscreenDoc, toWorker, fromWorker, worker, stopped,
                 persisting, tracking, audit, periphery>>

\* handleNext: `await playNext()`.
CmdNext ==
  /\ PlayNext
  /\ popupEvents' = <<>> /\ lastStep' = "next"
  /\ UNCHANGED <<session, timers, stored, offscreenDoc, toWorker,
                 fromWorker, worker, stopped, persisting, tracking, audit, periphery>>

\* handleNext after `await playNext()`: the value it returns, read from the
\* session at that moment.
HandleNextReply == [success |-> TRUE, bird |-> currentBird]

\* --------------------------------------- Orchestrator: wait-then-advance
\* Mutant of AlreadyWaiting: the `if (state.isWaiting) return` guard is gone
\* and an audioEnded that arrives during a wait arms a second timer.
AlreadyWaitingRearms ==
  /\ isWaiting
  /\ FreeTimerIds # {}
  /\ isWaiting' = TRUE
  /\ waitingStartTime' = Now
  /\ popupEvents' = <<"waitingStarted">>
  /\ timers' = timers \cup {Min(FreeTimerIds)}
  /\ waitingTimeout' = Min(FreeTimerIds)
  /\ lastStep' = "audioEndedSkipped"
  /\ UNCHANGED <<currentBird, isPlaying, isPaused, region, tasks>>

\* playNextWithWait, the branch taken when state.isWaiting is already set.
AlreadyWaiting ==
  /\ isWaiting
  /\ popupEvents' = <<>> /\ lastStep' = "audioEndedSkipped"
  /\ UNCHANGED <<session, timers, tasks>>

\* Mutant of StartWaiting: the search for the next bird is issued at once,
\* beside the timer, instead of inside the timer callback.
StartWaitingSearchesAtOnce ==
  /\ ~isWaiting
  /\ FreeTimerIds # {}
  /\ isWaiting' = TRUE
  /\ waitingStartTime' = Now
  /\ popupEvents' = <<"waitingStarted">>
  /\ timers' = timers \cup {Min(FreeTimerIds)}
  /\ waitingTimeout' = Min(FreeTimerIds)
  /\ lastStep' = ""
  /\ PlayNext
  /\ UNCHANGED <<currentBird, isPlaying, isPaused, region>>

\* playNextWithWait, the branch that starts the wait.
StartWaiting ==
  /\ ~isWaiting
  /\ FreeTimerIds # {}
  /\ isWaiting' = TRUE
  /\ waitingStartTime' = Now
  /\ popupEvents' = <<"waitingStarted">>
  /\ timers' = timers \cup {Min(FreeTimerIds)}
  /\ waitingTimeout' = Min(FreeTimerIds)
  /\ lastStep' = ""
  /\ UNCHANGED <<currentBird, isPlaying, isPaused, region, tasks>>

PlayNextWithWait == AlreadyWaiting \/ StartWaiting

\* The setTimeout callback of playNextWithWait up to
\* `await searchBirdAudio(state.region)`.
TimerFire ==
  /\ InFlight < MaxTasks
  /\ \E id \in timers : timers' = timers \ {id}
  /\ isWaiting' = FALSE /\ waitingTimeout' = NoTimer
  /\ waitingStartTime' = NoTime
  /\ tasks' = tasks (+) One(Searching)
  /\ popupEvents' = <<>> /\ lastStep' = "timerFire"
  /\ UNCHANGED <<currentBird, isPlaying, isPaused, region, stored,
                 offscreenDoc, toWorker, fromWorker, worker, stopped, persisting, tracking, audit, periphery>>

\* ---------------------------------------- Orchestrator: offscreen events
\* One message from the AudioWorker is delivered to the Orchestrator.
Delivered(m) ==
  /\ fromWorker # <<>> /\ Head(fromWorker) = m
  /\ fromWorker' = Tail(fromWorker)

\* Mutant of Ignored: the `state.isPlaying && !state.isPaused` guard is gone
\* and the event starts an advance whatever the session says.
IgnoredAdvances ==
  /\ PlayNext
  /\ popupEvents' = <<>> /\ lastStep' = "ignored"
  /\ UNCHANGED <<session, timers>>

\* A guarded case of handleOffscreenEvent whose guard is false.
Ignored ==
  /\ popupEvents' = <<>> /\ lastStep' = "ignored"
  /\ UNCHANGED <<session, timers, tasks>>

\* handleOffscreenEvent, case 'audioEnded'.
EvAudioEnded ==
  /\ Delivered(Event("audioEnded"))
  /\ IF isPlaying /\ ~isPaused THEN PlayNextWithWait
                               ELSE Ignored
  /\ UNCHANGED <<stored, offscreenDoc, toWorker, worker, stopped, persisting, tracking, audit, periphery>>

\* Mutant of EvAudioError: the error case takes the wait-then-advance path
\* of the audioEnded case.
EvAudioErrorWaits ==
  /\ Delivered(Event("audioError"))
  /\ IF isPlaying /\ ~isPaused
       THEN /\ ~isWaiting
            /\ FreeTimerIds # {}
            /\ isWaiting' = TRUE
            /\ waitingStartTime' = Now
            /\ popupEvents' = <<"waitingStarted">>
            /\ timers' = timers \cup {Min(FreeTimerIds)}
            /\ waitingTimeout' = Min(FreeTimerIds)
            /\ lastStep' = "audioError"
            /\ UNCHANGED <<currentBird, isPlaying, isPaused, region, tasks>>
       ELSE Ignored
  /\ UNCHANGED <<stored, offscreenDoc, toWorker, worker, stopped, persisting, tracking, audit, periphery>>

\* handleOffscreenEvent, case 'audioError'.
EvAudioError ==
  /\ Delivered(Event("audioError"))
  /\ IF isPlaying /\ ~isPaused
       THEN /\ PlayNext
            /\ popupEvents' = <<>> /\ lastStep' = "audioError"
            /\ errorAdvances' = IF errorAdvances.counting
                                  THEN [errorAdvances EXCEPT !.n = @ + 1]
                                  ELSE errorAdvances
            /\ UNCHANGED <<session, timers>>
       ELSE Ignored /\ UNCHANGED errorAdvances
  /\ UNCHANGED <<stored, offscreenDoc, toWorker, worker, stopped, persisting,
                 tracking, audit, stateQuery, fullState, ui, boot, controls,
                 commands, setup, settings>>

\* handleOffscreenEvent, case 'audioStarted'.
EvAudioStarted ==
  /\ Delivered(Event("audioStarted"))
  /\ isPlaying' = TRUE /\ isPaused' = FALSE
  /\ popupEvents' = <<"audioStarted">> /\ lastStep' = ""
  /\ UNCHANGED <<currentBird, region, isWaiting, waitingTimeout,
                 waitingStartTime, timers, tasks>>
  /\ UNCHANGED <<stored, offscreenDoc, toWorker, worker, stopped, persisting, tracking, audit, periphery>>

\* handleOffscreenEvent, case 'audioPaused'.
EvAudioPaused ==
  /\ Delivered(Event("audioPaused"))
  /\ isPaused' = TRUE
  /\ popupEvents' = <<"audioPaused">> /\ lastStep' = ""
  /\ UNCHANGED <<currentBird, isPlaying, region, isWaiting, waitingTimeout,
                 waitingStartTime, timers, tasks>>
  /\ UNCHANGED <<stored, offscreenDoc, toWorker, worker, stopped, persisting, tracking, audit, periphery>>

\* handleOffscreenEvent, case 'audioResumed'.
EvAudioResumed ==
  /\ Delivered(Event("audioResumed"))
  /\ isPlaying' = TRUE /\ isPaused' = FALSE
  /\ popupEvents' = <<"audioResumed">> /\ lastStep' = ""
  /\ UNCHANGED <<currentBird, region, isWaiting, waitingTimeout,
                 waitingStartTime, timers, tasks>>
  /\ UNCHANGED <<stored, offscreenDoc, toWorker, worker, stopped, persisting, tracking, audit, periphery>>

\* ------------------------------------------- Orchestrator: continuations

\* searchBirdAudio resolves with a bird in handleStart, playNext or the timer
\* callback: currentBird is set and playBirdAudio begins (it suspends in
\* setupOffscreen).
SearchFound ==
  \E t \in BagToSet(tasks) : \E b \in Birds :
    /\ t.pc = "search"
    /\ currentBird' = b
    /\ tasks' = (tasks (-) One(t)) (+) One([t EXCEPT !.pc = "setup", !.bird = b])
    /\ popupEvents' = <<>> /\ lastStep' = ""
    /\ UNCHANGED <<isPlaying, isPaused, region, isWaiting, waitingTimeout,
                   waitingStartTime, timers, stored, offscreenDoc, toWorker,
                   fromWorker, worker, stopped, persisting, tracking, audit, periphery>>

\* searchBirdAudio resolves with notFoundObj.  The object is truthy, so
\* `if (bird)` takes the branch of a bird that was found: currentBird is set
\* and playBirdAudio begins.
SearchSentinel ==
  \E t \in BagToSet(tasks) :
    /\ t.pc = "search"
    /\ currentBird' = Sentinel
    /\ tasks' = (tasks (-) One(t)) (+) One([t EXCEPT !.pc = "setup", !.bird = Sentinel])
    /\ popupEvents' = <<>> /\ lastStep' = ""
    /\ UNCHANGED <<isPlaying, isPaused, region, isWaiting, waitingTimeout,
                   waitingStartTime, timers, stored, offscreenDoc, toWorker,
                   fromWorker, worker, stopped, persisting, tracking, audit, periphery>>

\* searchBirdAudio resolves with null: the handler returns.
SearchEmpty ==
  \E t \in BagToSet(tasks) :
    /\ t.pc = "search"
    /\ tasks' = tasks (-) One(t)
    /\ popupEvents' = <<>> /\ lastStep' = ""
    /\ UNCHANGED <<session, timers, stored, offscreenDoc, toWorker,
                   fromWorker, worker, stopped, persisting, tracking, audit, periphery>>

\* playBirdAudio after setupOffscreen: the document exists and the playAudio
\* request is sent; the handler suspends on the response.
PlayBirdAudio ==
  \E t \in BagToSet(tasks) :
    /\ t.pc = "setup"
    /\ offscreenDoc' = TRUE
    /\ toWorker' = Append(toWorker, [type |-> "playAudio", bird |-> t.bird])
    /\ tasks' = tasks (-) One(t)
    /\ popupEvents' = <<>> /\ lastStep' = ""
    /\ UNCHANGED <<session, timers, stored, fromWorker, worker, stopped, persisting, tracking, audit, periphery>>

\* The tail of a handler once its sendMessage settled: saveState, then for
\* an advance notifyPopup('birdChanged'), then the handler returns.
SaveState ==
  \E type \in {"playAudio", "stopAudio", "pauseAudio", "resumeAudio"} :
    /\ Delivered(Response(type))
    /\ StorageSet(Snapshot)
    /\ popupEvents' = IF type = "playAudio" THEN <<"birdChanged">> ELSE <<>>
    /\ lastStep' = ""
    /\ UNCHANGED <<session, timers, tasks, offscreenDoc, toWorker,
                   worker, stopped, persisting, tracking, audit, periphery>>

\* ------------------------------------------------ AudioWorker: operators
\* HTMLMediaElement.pause() rejects a play() promise that has not settled.
\* The one playAudio awaits lands in its catch block.
Aborts(el) == el.loaded /\ el.pending = "initial"

\* Mutant of PauseAudio: audioPaused is notified whenever an element is
\* loaded, whether or not it was playing.
PauseAudioAlwaysNotifies(el) ==
  IF el.loaded
    THEN [el |-> [el EXCEPT !.paused = TRUE, !.pending = "none"],
          events |-> <<Event("audioPaused")>>]
    ELSE [el |-> el, events |-> <<>>]

\* pauseAudio(): the element afterwards and the events it notifies.
PauseAudio(el) ==
  IF el.loaded /\ ~el.paused
    THEN [el |-> [el EXCEPT !.paused = TRUE, !.pending = "none"],
          events |-> <<Event("audioPaused")>>]
    ELSE [el |-> el, events |-> <<>>]

\* Mutant of ResumeAudio: audioResumed is notified as soon as play() is
\* called, not when its promise resolves.
ResumeAudioNotifiesAtOnce(el) ==
  IF el.loaded /\ el.paused
    THEN [el |-> [el EXCEPT !.paused = FALSE, !.pending = "none",
                            !.pos = IF el.ended THEN 0 ELSE el.pos,
                            !.ended = FALSE],
          events |-> <<Event("audioResumed")>>]
    ELSE [el |-> el, events |-> <<>>]

\* resumeAudio() when the browser lets play() begin: paused flips at once
\* (an ended clip is rewound first), the element's play event runs onplay,
\* and the promise stays pending for the .then that notifies audioResumed.
ResumeAudio(el) ==
  IF el.loaded /\ el.paused
    THEN [el |-> [el EXCEPT !.paused = FALSE, !.pending = "resume",
                            !.pos = IF el.ended THEN 0 ELSE el.pos,
                            !.ended = FALSE],
          events |-> <<Event("audioStarted")>>]
    ELSE [el |-> el, events |-> <<>>]

\* Mutant of GetAudioState: a paused element counts as paused at position 0
\* too.
GetAudioStatePausedAtZero(el) ==
  [nulls |-> ~el.loaded,
   isPlaying |-> el.loaded /\ ~el.paused,
   isPaused |-> el.loaded /\ el.paused,
   currentTime |-> IF el.loaded THEN el.pos ELSE 0,
   duration |-> IF el.loaded /\ el.pos > 0 THEN 1 ELSE 0]

\* The 'getAudioState' case of the offscreen message listener.  With no
\* element `audioElement && ...` is null, not a boolean: nulls = TRUE, and
\* the two flags are then written FALSE.  currentTime is 0 or positive;
\* duration is 0 (NaN || 0) until the media's length is known, which it is
\* once the position has moved.
GetAudioState(el) ==
  [nulls |-> ~el.loaded,
   isPlaying |-> el.loaded /\ ~el.paused,
   isPaused |-> el.loaded /\ el.paused /\ el.pos > 0,
   currentTime |-> IF el.loaded THEN el.pos ELSE 0,
   duration |-> IF el.loaded /\ el.pos > 0 THEN 1 ELSE 0]

\* chrome.runtime.sendMessage / sendResponse towards the Orchestrator.
Send(msgs) ==
  /\ Len(fromWorker) + Len(msgs) <= MaxQueue
  /\ fromWorker' = fromWorker \o msgs

\* --------------------------------------------------- AudioWorker: actions
\* What a worker step leaves alone in the Orchestrator.
OrchestratorUntouched ==
  /\ popupEvents' = <<>> /\ lastStep' = ""
  /\ UNCHANGED <<session, timers, tasks, stored, offscreenDoc, stopped,
                 persisting, tracking, auditing, periphery>>

WorkerFrame ==
  /\ OrchestratorUntouched
  /\ UNCHANGED <<workerStopped, blobLeaked>>

\* The next request reaches the offscreen message listener.  A catch block
\* that a rejected play() made runnable runs before the next message.
Received(type) ==
  /\ ~aborted
  /\ toWorker # <<>> /\ Head(toWorker).type = type
  /\ toWorker' = Tail(toWorker)

\* case 'playAudio': playAudio up to `await downloadAudioAsBlob(audioUrl)`.
RecvPlayAudio ==
  /\ Received("playAudio")
  /\ audioElement' = NoAudio
  /\ blobUrl' = FALSE
  /\ downloads' = downloads (+) One([bird |-> Head(toWorker).bird])
  /\ aborted' = Aborts(audioElement)
  /\ workerStopped' = FALSE
  /\ UNCHANGED <<orphans, fromWorker, blobLeaked>>
  /\ OrchestratorUntouched

\* Mutant of DownloadFails: the catch block does not notify audioError.
DownloadFailsSilently ==
  \E d \in BagToSet(downloads) :
    /\ ~aborted
    /\ downloads' = downloads (-) One(d)
    /\ Send(<<Response("playAudio")>>)
    /\ UNCHANGED <<audioElement, blobUrl, aborted, orphans, toWorker>>
    /\ WorkerFrame

\* playAudio: the download failed; the catch block notifies audioError and
\* the listener responds {success:false}.
DownloadFails ==
  \E d \in BagToSet(downloads) :
    /\ ~aborted
    /\ downloads' = downloads (-) One(d)
    /\ Send(<<Event("audioError"), Response("playAudio")>>)
    /\ UNCHANGED <<audioElement, blobUrl, aborted, orphans, toWorker>>
    /\ WorkerFrame

\* A reference that is overwritten while its element sounds leaves the
\* element playing: nothing pauses it.
Detached(el) == IF el.loaded /\ ~el.paused THEN 1 ELSE 0

\* playAudio after the download: the blob URL and the element are created,
\* the listeners attached and play() called; the browser starts playback:
\* paused flips, the play event runs onplay, the promise is pending.
\* An element bound by an overlapping playAudio loses its reference; its
\* own playAudio still gets the outcome of its play().
DownloadDone ==
  \E d \in BagToSet(downloads) :
    /\ ~aborted
    /\ downloads' = downloads (-) One(d)
    /\ blobUrl' = TRUE
    /\ blobLeaked' = (blobLeaked \/ (auditing /\ blobUrl))
    /\ orphans + Detached(audioElement) <= MaxOrphans
    /\ orphans' = orphans + Detached(audioElement)
    /\ audioElement' = [loaded |-> TRUE, paused |-> FALSE, pos |-> 0,
                        ended |-> FALSE, pending |-> "initial"]
    /\ Send(IF Aborts(audioElement)
              THEN <<Response("playAudio"), Event("audioStarted")>>
              ELSE <<Event("audioStarted")>>)
    /\ UNCHANGED <<aborted, toWorker>>
    /\ UNCHANGED workerStopped
    /\ OrchestratorUntouched

\* playAudio after the download, when the browser rejects play() (autoplay
\* policy): the element stays paused, the catch block notifies audioError
\* and the listener responds {success:false}.
PlayRejected ==
  \E d \in BagToSet(downloads) :
    /\ ~aborted
    /\ ~Aborts(audioElement)
    /\ downloads' = downloads (-) One(d)
    /\ blobUrl' = TRUE
    /\ blobLeaked' = (blobLeaked \/ (auditing /\ blobUrl))
    /\ orphans + Detached(audioElement) <= MaxOrphans
    /\ orphans' = orphans + Detached(audioElement)
    /\ audioElement' = [loaded |-> TRUE, paused |-> TRUE, pos |-> 0,
                        ended |-> FALSE, pending |-> "none"]
    /\ Send(<<Event("audioError"), Response("playAudio")>>)
    /\ UNCHANGED <<aborted, toWorker>>
    /\ UNCHANGED workerStopped
    /\ OrchestratorUntouched

\* The catch block of a playAudio whose play() promise a pause rejected:
\* notifyBackground('audioError'), rethrow, {success:false}.
PlayAborted ==
  /\ aborted
  /\ aborted' = FALSE
  /\ Send(<<Event("audioError"), Response("playAudio")>>)
  /\ UNCHANGED <<audioElement, blobUrl, downloads, orphans, toWorker>>
  /\ WorkerFrame

\* audioElement.onerror while the play() promise playAudio awaits is
\* pending (the media cannot be decoded): the handler notifies audioError,
\* the element does not play, and the promise is rejected, which makes the
\* catch block of playAudio runnable.
ElementError ==
  /\ ~aborted
  /\ audioElement.loaded /\ audioElement.pending = "initial"
  /\ audioElement' = [audioElement EXCEPT !.paused = TRUE, !.pending = "none"]
  /\ aborted' = TRUE
  /\ Send(<<Event("audioError")>>)
  /\ UNCHANGED <<blobUrl, downloads, orphans, toWorker>>
  /\ WorkerFrame

\* The play() promise playAudio awaits resolves: playAudio returns and the
\* listener responds {success:true}.
PlayStarted ==
  /\ ~aborted
  /\ audioElement.loaded /\ audioElement.pending = "initial"
  /\ audioElement' = [audioElement EXCEPT !.pending = "none"]
  /\ Send(<<Response("playAudio")>>)
  /\ UNCHANGED <<blobUrl, downloads, aborted, orphans, toWorker>>
  /\ WorkerFrame

\* The play() promise of resumeAudio resolves: its .then notifies
\* audioResumed.
ResumeStarted ==
  /\ ~aborted
  /\ audioElement.loaded /\ audioElement.pending = "resume"
  /\ audioElement' = [audioElement EXCEPT !.pending = "none"]
  /\ Send(<<Event("audioResumed")>>)
  /\ UNCHANGED <<blobUrl, downloads, aborted, orphans, toWorker>>
  /\ WorkerFrame

\* Playback advances: currentTime leaves 0.
Progress ==
  /\ ~aborted
  /\ audioElement.loaded /\ ~audioElement.paused
  /\ audioElement.pending = "none" /\ audioElement.pos = 0
  /\ audioElement' = [audioElement EXCEPT !.pos = 1]
  /\ UNCHANGED <<blobUrl, downloads, aborted, orphans, toWorker, fromWorker>>
  /\ WorkerFrame

\* audioElement.onended: the clip reached its end; the element pauses itself
\* at the end position.
OnEnded ==
  /\ ~aborted
  /\ audioElement.loaded /\ ~audioElement.paused
  /\ audioElement.pending = "none"
  /\ audioElement' = [audioElement EXCEPT !.paused = TRUE, !.pos = 1,
                                      !.ended = TRUE]
  /\ Send(<<Event("audioEnded")>>)
  /\ UNCHANGED <<blobUrl, downloads, aborted, orphans, toWorker>>
  /\ WorkerFrame

\* onended of an element that audioElement no longer names.
OrphanEnded ==
  /\ ~aborted
  /\ orphans > 0
  /\ orphans' = orphans - 1
  /\ Send(<<Event("audioEnded")>>)
  /\ UNCHANGED <<audioElement, blobUrl, downloads, aborted, toWorker>>
  /\ WorkerFrame

\* case 'pauseAudio'.
RecvPauseAudio ==
  /\ Received("pauseAudio")
  /\ audioElement' = PauseAudio(audioElement).el
  /\ aborted' = (PauseAudio(audioElement).events # <<>> /\ Aborts(audioElement))
  /\ Send(PauseAudio(audioElement).events \o <<Response("pauseAudio")>>)
  /\ UNCHANGED <<blobUrl, downloads, orphans>>
  /\ WorkerFrame

\* case 'resumeAudio', play() allowed.
RecvResumeAudio ==
  /\ Received("resumeAudio")
  /\ audioElement' = ResumeAudio(audioElement).el
  /\ Send(<<Response("resumeAudio")>> \o ResumeAudio(audioElement).events)
  /\ UNCHANGED <<blobUrl, downloads, aborted, orphans>>
  /\ WorkerFrame

\* case 'resumeAudio' when the browser rejects play(): the .catch only logs.
RecvResumeRejected ==
  /\ Received("resumeAudio")
  /\ audioElement.loaded /\ audioElement.paused
  /\ Send(<<Response("resumeAudio")>>)
  /\ UNCHANGED <<audioElement, blobUrl, downloads, aborted, orphans>>
  /\ WorkerFrame

\* case 'stopAudio': pause, rewind, drop the reference, revoke the blob URL.
RecvStopAudio ==
  /\ Received("stopAudio")
  /\ audioElement' = NoAudio
  /\ blobUrl' = FALSE
  /\ aborted' = Aborts(audioElement)
  /\ Send(<<Response("stopAudio")>>)
  /\ workerStopped' = auditing
  /\ UNCHANGED <<downloads, orphans, blobLeaked>>
  /\ OrchestratorUntouched

\* The messages on the chrome.runtime channel that are addressed to other
\* listeners: the UIClient's commands and the Orchestrator's popupEvent.
OtherTypes ==
  {"start", "stop", "pause", "resume", "next", "getFullState", "popupEvent"}

\* Mutant of RecvOther: the default case answers the message.
RecvOtherAnswers ==
  \E type \in OtherTypes :
    /\ ~aborted
    /\ Send(<<Response(type)>>)
    /\ popupEvents' = <<>> /\ lastStep' = "delegated"
    /\ UNCHANGED <<session, timers, tasks, stored, offscreenDoc, stopped,
                   persisting, tracking, audit, periphery, worker, toWorker>>

\* default case of the offscreen listener: a message of another type is
\* left to the other listeners (`return false`), sendResponse is not called.
RecvOther ==
  \E type \in OtherTypes :
    /\ ~aborted
    /\ popupEvents' = <<>> /\ lastStep' = "delegated"
    /\ UNCHANGED <<session, timers, tasks, stored, offscreenDoc, stopped,
                   persisting, tracking, audit, periphery, worker, toWorker,
                   fromWorker>>

\* ------------------------------------------ Orchestrator: state queries
\* What getOffscreenState returns when both attempts failed.
Neutral ==
  [nulls |-> FALSE, isPlaying |-> FALSE, isPaused |-> FALSE,
   currentTime |-> 0, duration |-> 0]

\* Mutant of FullState: the AudioWorker's flags alone.
FullStateWorkerOnly(st) ==
  [kind |-> "state",
   isPlaying |-> st.isPlaying,
   isPaused |-> st.isPaused,
   currentBird |-> currentBird, region |-> region, audioState |-> st]

\* Mutant of FullState: the session's flags alone.
FullStateSessionOnly(st) ==
  [kind |-> "state",
   isPlaying |-> isPlaying,
   isPaused |-> isPaused,
   currentBird |-> currentBird, region |-> region, audioState |-> st]

\* getFullState's result for the AudioWorker state `st`, composed with the
\* session as it is when the call returns.  `typeof ... === 'boolean'` fails
\* for the nulls the AudioWorker sends when it has no element.
FullState(st) ==
  [kind |-> "state",
   isPlaying |-> IF ~st.nulls THEN st.isPlaying \/ isPlaying ELSE isPlaying,
   isPaused |-> IF ~st.nulls THEN st.isPaused \/ isPaused ELSE isPaused,
   currentBird |-> currentBird, region |-> region, audioState |-> st]

\* The UIClient is waiting for the reply to its getFullState; without it a
\* reply goes nowhere.
Listening == ui.phase = "open" /\ ui.request = "handling"

Reply(full) == fullState' = IF Listening THEN full ELSE NoReply

\* What a step of a query or of the UIClient leaves alone.
QueryFrame ==
  /\ popupEvents' = <<>> /\ lastStep' = ""
  /\ UNCHANGED <<session, timers, tasks, stored, toWorker, fromWorker,
                 worker, stopped, persisting, tracking, audit, boot,
                 controls, commands, setup, errorAdvances, settings>>

\* A getFullState message reaches the Orchestrator: handleGetState calls
\* getFullState, which calls getOffscreenState, which starts setupOffscreen.
\* One such handler runs at a time.
GetStateReceived ==
  /\ ui.phase = "open" /\ ui.request = "sent"
  /\ stateQuery = NoQuery
  /\ stateQuery' = [pc |-> "setup", attempts |-> 1]
  /\ fullState' = NoReply
  /\ ui' = [ui EXCEPT !.request = "handling"]
  /\ UNCHANGED offscreenDoc
  /\ QueryFrame

\* setupOffscreen found or created the document; getAudioState is sent.
SetupDone ==
  /\ stateQuery.pc = "setup"
  /\ stateQuery' = [stateQuery EXCEPT !.pc = "sent"]
  /\ offscreenDoc' = TRUE
  /\ UNCHANGED <<fullState, ui>>
  /\ QueryFrame

\* The offscreen listener answers getAudioState.
WorkerAnswers ==
  /\ stateQuery.pc = "sent"
  /\ stateQuery' = [pc |-> "answered", attempts |-> stateQuery.attempts,
                    state |-> GetAudioState(audioElement)]
  /\ UNCHANGED <<fullState, ui, offscreenDoc>>
  /\ QueryFrame

\* The answer reaches getOffscreenState, which returns it; getFullState
\* composes the result and handleGetState replies with it.
GetFullStateReturns ==
  /\ stateQuery.pc = "answered"
  /\ Reply(FullState(stateQuery.state))
  /\ stateQuery' = NoQuery
  /\ UNCHANGED <<ui, offscreenDoc>>
  /\ QueryFrame

\* Mutant of QueryRetries: the first failure already returns the neutral
\* snapshot.
QueryGivesUpAtOnce ==
  /\ stateQuery.pc \in {"setup", "sent"}
  /\ stateQuery.attempts = 1
  /\ Reply(FullState(Neutral))
  /\ stateQuery' = NoQuery
  /\ offscreenDoc' = FALSE
  /\ UNCHANGED ui
  /\ QueryFrame

\* The first attempt throws, in setupOffscreen or in sendMessage: the outer
\* catch clears offscreenCreated and starts setupOffscreen again.
QueryRetries ==
  /\ stateQuery.pc \in {"setup", "sent"}
  /\ stateQuery.attempts = 1
  /\ stateQuery' = [pc |-> "setup", attempts |-> 2]
  /\ offscreenDoc' = FALSE
  /\ UNCHANGED <<fullState, ui>>
  /\ QueryFrame

\* The retry throws too: the inner catch returns the neutral snapshot, and
\* getFullState composes it.
QueryGivesUp ==
  /\ stateQuery.pc \in {"setup", "sent"}
  /\ stateQuery.attempts = 2
  /\ Reply(FullState(Neutral))
  /\ stateQuery' = NoQuery
  /\ offscreenDoc' = (stateQuery.pc = "sent")
  /\ UNCHANGED ui
  /\ QueryFrame

\* ----------------------------------------------------------- UIClient
\* The UIClient after it was destroyed; NoUi is the one never created.
ClosedUi == [phase |-> "closed", again |-> TRUE]

\* BirdSongApp mounts: the useState defaults (syncing starts TRUE), then
\* loadSettings, which finds no region in the settings and none for the
\* browser's language, and syncWithOffscreen up to its `await
\* chrome.runtime.sendMessage({ type: 'getFullState' })`.  isWaiting is the
\* state of the WaitingStatus component.
Activate ==
  /\ ui.phase = "closed"
  /\ ui' = [phase |-> "open", again |-> (ui = ClosedUi),
            syncing |-> TRUE, request |-> "sent",
            isPlaying |-> FALSE, isPaused |-> FALSE,
            currentBird |-> NoBird, region |-> "",
            isWaiting |-> FALSE]
  /\ UNCHANGED <<stateQuery, fullState, offscreenDoc>>
  /\ QueryFrame

\* The response reaches syncWithOffscreen: the try block, then `finally`.
\* The response of getFullState carries no isWaiting, syncWithOffscreen has
\* no setter for it, and WaitingStatus adopts it only when it is defined.
UiSynced ==
  /\ ui.phase = "open" /\ ui.request = "handling"
  /\ fullState.kind = "state"
  /\ ui' = IF fullState.isPlaying
           THEN [ui EXCEPT !.isPlaying = TRUE,
                           !.isPaused = fullState.isPaused,
                           !.currentBird = fullState.currentBird,
                           !.region = fullState.region,
                           !.syncing = FALSE, !.request = "none"]
           ELSE [ui EXCEPT !.isPlaying = FALSE,
                           !.isPaused = FALSE,
                           !.currentBird = NoBird,
                           !.syncing = FALSE, !.request = "none"]
  /\ fullState' = NoReply
  /\ UNCHANGED <<stateQuery, offscreenDoc>>
  /\ QueryFrame

\* sendMessage rejects: the catch block logs, then `finally`.
UiSyncFails ==
  /\ ui.phase = "open" /\ ui.request \in {"sent", "handling"}
  /\ ui' = [ui EXCEPT !.syncing = FALSE, !.request = "none"]
  /\ fullState' = NoReply
  /\ UNCHANGED <<stateQuery, offscreenDoc>>
  /\ QueryFrame

\* The popup closes: the UIClient is destroyed.
Close ==
  /\ ui.phase = "open"
  /\ ui' = ClosedUi
  /\ fullState' = NoReply
  /\ UNCHANGED <<stateQuery, offscreenDoc>>
  /\ QueryFrame

\* The getFullState handler and the UIClient that calls it.
NextQuery ==
  \/ Activate \/ GetStateReceived \/ SetupDone \/ WorkerAnswers
  \/ GetFullStateReturns \/ QueryRetries \/ QueryGivesUp
  \/ UiSynced \/ UiSyncFails \/ Close

\* Every state the session and the audio element can be in when a query is
\* made; nothing else runs.
Elements ==
  {NoAudio} \cup
  {[loaded |-> TRUE, paused |-> p, pos |-> t, ended |-> FALSE,
    pending |-> "none"] : p \in BOOLEAN, t \in {0, 1}} \cup
  {[loaded |-> TRUE, paused |-> TRUE, pos |-> 1, ended |-> TRUE,
    pending |-> "none"]}

InitQuery ==
  /\ currentBird \in {NoBird} \cup Birds
  /\ isPlaying \in BOOLEAN /\ isPaused \in BOOLEAN
  /\ region \in Regions \cup {""}
  /\ isWaiting \in BOOLEAN
  /\ waitingTimeout = NoTimer /\ waitingStartTime = NoTime
  /\ timers = {} /\ tasks = EmptyBag /\ stored = NoRecord
  /\ popupEvents = <<>> /\ offscreenDoc \in BOOLEAN
  /\ toWorker = <<>> /\ fromWorker = <<>>
  /\ audioElement \in Elements
  /\ blobUrl = audioElement.loaded /\ downloads = EmptyBag
  /\ aborted = FALSE /\ orphans = 0
  /\ stopped = "" /\ lastStep = ""
  /\ persisting = FALSE /\ tracking = FALSE /\ auditing = FALSE
  /\ workerStopped = FALSE /\ blobLeaked = FALSE
  /\ stateQuery = NoQuery /\ fullState = NoReply
  /\ ui = NoUi /\ boot = NoBoot
  /\ controls = NoControls /\ commands = EmptyBag
  /\ setup = NoSetup /\ errorAdvances = NoCount
  /\ settings = NoSettings

\* ------------------------------------------- Orchestrator: state restore
\* StartupReason.
Reasons == {"unknown", "startup", "installed"}

\* getOptions: autoResume is true only when the stored value is `true`.
GetOptions(pref) == [autoResume |-> pref.set /\ pref.value]

\* shouldResumePlayback.
ShouldResumePlayback(options, reason) ==
  IF reason = "unknown" THEN TRUE
  ELSE IF reason \in {"startup", "installed"} THEN options.autoResume
  ELSE FALSE

\* What a step of the restore leaves alone.
RestoreFrame ==
  /\ popupEvents' = <<>> /\ lastStep' = ""
  /\ UNCHANGED <<isWaiting, waitingTimeout, waitingStartTime, timers, stored,
                 toWorker, fromWorker, worker, stopped, persisting, tracking,
                 audit, stateQuery, fullState, ui, controls, commands, setup,
                 errorAdvances, settings>>

\* chrome.storage.local.get(['playbackState']) resolves.  With a record the
\* four session fields are assigned from it; if it says playing and names a
\* bird, setupOffscreen begins.
RestoreRead ==
  /\ boot.pc = "start"
  /\ IF stored.saved
     THEN /\ isPlaying' = stored.isPlaying /\ isPaused' = stored.isPaused
          /\ currentBird' = stored.currentBird /\ region' = stored.region
          /\ boot' = [boot EXCEPT !.pc = IF stored.isPlaying /\ stored.currentBird # NoBird
                                         THEN "setup" ELSE "done"]
     ELSE /\ UNCHANGED <<isPlaying, isPaused, currentBird, region>>
          /\ boot' = [boot EXCEPT !.pc = "done"]
  /\ UNCHANGED <<tasks, offscreenDoc>>
  /\ RestoreFrame

\* `await setupOffscreen()` returns and getOffscreenState is called.
RestoreSetup ==
  /\ boot.pc = "setup"
  /\ boot' = [boot EXCEPT !.pc = "query"]
  /\ offscreenDoc' = TRUE
  /\ UNCHANGED <<isPlaying, isPaused, currentBird, region, tasks>>
  /\ RestoreFrame

\* `await setupOffscreen()` throws: the restore ends there.
RestoreSetupFails ==
  /\ boot.pc = "setup"
  /\ boot' = [boot EXCEPT !.pc = "done"]
  /\ offscreenDoc' = FALSE
  /\ UNCHANGED <<isPlaying, isPaused, currentBird, region, tasks>>
  /\ RestoreFrame

\* Mutant of RestoreDecides: playBirdAudio is called whatever the
\* AudioWorker reports.
RestoreAlwaysPlays ==
  /\ boot.pc = "query"
  /\ \E answered \in BOOLEAN :
       LET st == IF answered THEN GetAudioState(audioElement) ELSE Neutral
       IN  /\ boot' = [boot EXCEPT !.pc = "done", !.reported = st,
                                   !.resumed = TRUE]
           /\ tasks' = tasks (+) One([pc |-> "setup", bird |-> currentBird])
           /\ offscreenDoc' = answered
  /\ UNCHANGED <<isPlaying, isPaused, currentBird, region>>
  /\ RestoreFrame

\* getOffscreenState returns what the AudioWorker answered or, after two
\* failed attempts (the second one in setupOffscreen, which leaves
\* offscreenCreated false), the neutral snapshot.  If that says not playing and the
\* session is not paused, playBirdAudio(currentBird) is called; otherwise
\* nothing more is done.
RestoreDecides ==
  /\ boot.pc = "query"
  /\ \E answered \in BOOLEAN :
       LET st == IF answered THEN GetAudioState(audioElement) ELSE Neutral
       IN  /\ boot' = [boot EXCEPT !.pc = "done", !.reported = st,
                                   !.resumed = (~st.isPlaying /\ ~isPaused)]
           /\ tasks' = IF ~st.isPlaying /\ ~isPaused
                       THEN tasks (+) One([pc |-> "setup", bird |-> currentBird])
                       ELSE tasks
           /\ offscreenDoc' = answered
  /\ UNCHANGED <<isPlaying, isPaused, currentBird, region>>
  /\ RestoreFrame

\* The restore, and the playBirdAudio it may call.
NextRestore ==
  \/ RestoreRead \/ RestoreSetup \/ RestoreSetupFails \/ RestoreDecides
  \/ PlayBirdAudio

\* The service worker starts for any reason, with any stored record and
\* preference, beside an AudioWorker in any state.
Records ==
  {NoRecord} \cup
  [saved : {TRUE}, isPlaying : BOOLEAN, isPaused : BOOLEAN,
   currentBird : {NoBird} \cup Birds, region : Regions]

InitRestore ==
  /\ currentBird = NoBird /\ isPlaying = FALSE /\ isPaused = FALSE
  /\ region = "" /\ isWaiting = FALSE
  /\ waitingTimeout = NoTimer /\ waitingStartTime = NoTime
  /\ timers = {} /\ tasks = EmptyBag /\ stored \in Records
  /\ popupEvents = <<>> /\ offscreenDoc = FALSE
  /\ toWorker = <<>> /\ fromWorker = <<>>
  /\ audioElement \in Elements
  /\ blobUrl = audioElement.loaded /\ downloads = EmptyBag
  /\ aborted = FALSE /\ orphans = 0
  /\ stopped = "" /\ lastStep = ""
  /\ persisting = TRUE /\ tracking = FALSE /\ auditing = FALSE
  /\ workerStopped = FALSE /\ blobLeaked = FALSE
  /\ stateQuery = NoQuery /\ fullState = NoReply /\ ui = NoUi
  /\ controls = NoControls /\ commands = EmptyBag
  /\ setup = NoSetup /\ errorAdvances = NoCount
  /\ \E pref \in Preferences : settings = [NoSettings EXCEPT !.autoResume = pref]
  /\ \E reason \in Reasons :
       boot = [pc |-> "start", reason |-> reason,
               options |-> GetOptions(settings.autoResume),
               reported |-> Neutral, resumed |-> FALSE]

\* --------------------------------------------------- UIClient: commands
\* PlaybackControls render: which buttons exist and are not disabled.
Rendered == ui.phase = "open" /\ ~ui.syncing
StartEnabled == Rendered /\ ~ui.isPlaying /\ ~controls.loading
PauseEnabled ==
  Rendered /\ ui.isPlaying /\ ~ui.isPaused /\ ~controls.loading
ResumeEnabled ==
  Rendered /\ ui.isPlaying /\ ui.isPaused /\ ~controls.loading
NextEnabled ==
  /\ Rendered /\ ui.isPlaying
  /\ ~(controls.loading \/ ui.isPaused \/ controls.isWaiting)
StopEnabled == Rendered /\ ui.isPlaying /\ ~controls.loading

\* chrome.runtime.sendMessage({type}) from the UIClient: the command is on
\* its way to the Orchestrator's listener.
SendCommand(type) ==
  /\ BagCardinality(commands) < MaxTasks
  /\ commands' = commands (+) One([type |-> type, pc |-> "sent"])

\* The five commands of the playback controls.
UiCommands == {"start", "stop", "pause", "resume", "next"}

\* What a step of the playback controls or of the listener's reply path
\* leaves alone.
CommandFrame ==
  /\ popupEvents' = <<>> /\ lastStep' = ""
  /\ UNCHANGED <<session, timers, tasks, stored, offscreenDoc, toWorker,
                 fromWorker, worker, stopped, persisting, tracking, audit,
                 stateQuery, fullState, boot, setup, errorAdvances,
                 settings>>

\* handleStart of PlaybackControls up to the await of the response.
ClickStart ==
  /\ StartEnabled
  /\ controls' = [controls EXCEPT !.loading = TRUE]
  /\ SendCommand("start")
  /\ UNCHANGED ui
  /\ CommandFrame

\* handlePause up to the await of the response.
ClickPause ==
  /\ PauseEnabled
  /\ SendCommand("pause")
  /\ UNCHANGED <<ui, controls>>
  /\ CommandFrame

\* handleResume up to the await of the response.
ClickResume ==
  /\ ResumeEnabled
  /\ SendCommand("resume")
  /\ UNCHANGED <<ui, controls>>
  /\ CommandFrame

\* playNext of PlaybackControls up to the await of the response.
ClickNext ==
  /\ NextEnabled
  /\ controls' = [controls EXCEPT !.loading = TRUE]
  /\ SendCommand("next")
  /\ UNCHANGED ui
  /\ CommandFrame

\* handleStop of PlaybackControls up to the await of the response.
ClickStop ==
  /\ StopEnabled
  /\ ui' = [ui EXCEPT !.isPlaying = FALSE, !.isPaused = FALSE,
                      !.currentBird = NoBird]
  /\ SendCommand("stop")
  /\ UNCHANGED controls
  /\ CommandFrame

\* The popupEvent listener of PlaybackControls.
WaitingNotified ==
  /\ ui.phase = "open"
  /\ \E event \in {"waitingStarted", "waitingCancelled"} :
       controls' = [controls EXCEPT !.isWaiting = (event = "waitingStarted")]
  /\ UNCHANGED <<ui, commands>>
  /\ CommandFrame

\* The Orchestrator's onMessage listener takes the command: the async
\* function that handles it is entered, and the listener returns true.
CommandReceived ==
  \E c \in BagToSet(commands) :
    /\ c.pc = "sent"
    /\ commands' = (commands (-) One(c)) (+) One([c EXCEPT !.pc = "handling"])
    /\ UNCHANGED <<ui, controls>>
    /\ CommandFrame

\* What the listener can pass to sendResponse for a command.
Replies(type) ==
  CASE type = "start" ->
         {[success |-> TRUE, bird |-> b] : b \in Birds}
         \cup {[success |-> FALSE, bird |-> NoBird]}
    [] type = "next" ->
         {[success |-> TRUE, bird |-> b] : b \in {NoBird} \cup Birds}
    [] OTHER -> {[success |-> TRUE, bird |-> NoBird]}

\* The async function reaches its sendResponse.
HandlerResponds ==
  \E c \in BagToSet(commands) : \E r \in Replies(c.type) :
    /\ c.pc = "handling"
    /\ commands' = (commands (-) One(c))
                   (+) One([type |-> c.type, pc |-> "replied", reply |-> r])
    /\ UNCHANGED <<ui, controls>>
    /\ CommandFrame

\* `await playBirdAudio(bird)` of start, or the one inside playNext of next,
\* throws (setupOffscreen failed or the playAudio send was rejected): the
\* async function has no catch, its promise is rejected and sendResponse is
\* never called.
HandlerThrows ==
  \E c \in BagToSet(commands) :
    /\ c.pc = "handling" /\ c.type \in {"start", "next"}
    /\ commands' = (commands (-) One(c)) (+) One([c EXCEPT !.pc = "dead"])
    /\ UNCHANGED <<ui, controls>>
    /\ CommandFrame

\* The response reaches the UIClient: the rest of the try block, then the
\* finally block of start and next.
UiResponded ==
  \E c \in BagToSet(commands) :
    /\ c.pc = "replied"
    /\ commands' = commands (-) One(c)
    /\ ui.phase = "open"
    /\ ui' = CASE c.type = "start" /\ c.reply.success /\ c.reply.bird # NoBird ->
                    [ui EXCEPT !.isPlaying = TRUE, !.isPaused = FALSE,
                               !.currentBird = c.reply.bird]
               [] c.type = "next" /\ c.reply.bird # NoBird ->
                    [ui EXCEPT !.currentBird = c.reply.bird]
               [] c.type = "pause" -> [ui EXCEPT !.isPaused = TRUE]
               [] c.type = "resume" -> [ui EXCEPT !.isPaused = FALSE]
               [] OTHER -> ui
    /\ controls' = IF c.type \in {"start", "next"}
                   THEN [controls EXCEPT !.loading = FALSE] ELSE controls
    /\ CommandFrame

\* sendMessage rejects in the UIClient, because nothing received the
\* command or because the port of a command that got no sendResponse was
\* closed: the catch block, then the finally block of start and next.
UiRejected ==
  \E c \in BagToSet(commands) :
    /\ c.pc \in {"sent", "dead"}
    /\ commands' = commands (-) One(c)
    /\ ui.phase = "open"
    /\ controls' = IF c.type \in {"start", "next"}
                   THEN [controls EXCEPT !.loading = FALSE] ELSE controls
    /\ UNCHANGED ui
    /\ CommandFrame

\* The playback controls, and the listener's reply to each command.
NextCommands ==
  \/ ClickStart \/ ClickPause \/ ClickResume \/ ClickNext \/ ClickStop
  \/ WaitingNotified \/ CommandReceived \/ HandlerResponds \/ HandlerThrows
  \/ UiResponded \/ UiRejected

\* The UIClient as a sync leaves it, in every state a reply can produce,
\* with the getFullState that PlaybackControls sends when it mounts.
Synced ==
  {[phase |-> "open", again |-> FALSE, syncing |-> FALSE, request |-> "none",
    isPlaying |-> TRUE, isPaused |-> p, currentBird |-> b, region |-> r,
    isWaiting |-> FALSE] :
      p \in BOOLEAN, b \in {NoBird} \cup Birds, r \in Regions \cup {""}}
  \cup
  {[phase |-> "open", again |-> FALSE, syncing |-> FALSE, request |-> "none",
    isPlaying |-> FALSE, isPaused |-> FALSE, currentBird |-> NoBird,
    region |-> "", isWaiting |-> FALSE]}

InitCommands ==
  /\ currentBird = NoBird /\ isPlaying = FALSE /\ isPaused = FALSE
  /\ region = "" /\ isWaiting = FALSE
  /\ waitingTimeout = NoTimer /\ waitingStartTime = NoTime
  /\ timers = {} /\ tasks = EmptyBag /\ stored = NoRecord
  /\ popupEvents = <<>> /\ offscreenDoc = FALSE
  /\ toWorker = <<>> /\ fromWorker = <<>>
  /\ audioElement = NoAudio /\ blobUrl = FALSE /\ downloads = EmptyBag
  /\ aborted = FALSE /\ orphans = 0
  /\ stopped = "" /\ lastStep = ""
  /\ persisting = FALSE /\ tracking = FALSE /\ auditing = FALSE
  /\ workerStopped = FALSE /\ blobLeaked = FALSE
  /\ stateQuery = NoQuery /\ fullState = NoReply /\ boot = NoBoot
  /\ ui \in Synced
  /\ controls = NoControls
  /\ commands = One([type |-> "getFullState", pc |-> "sent"])
  /\ setup = NoSetup /\ errorAdvances = NoCount
  /\ settings = NoSettings

\* ------------------------------------------ OffscreenManager: setupOffscreen
\* What a step inside setupOffscreen leaves alone.
SetupFrame ==
  /\ popupEvents' = <<>> /\ lastStep' = ""
  /\ UNCHANGED <<session, timers, tasks, stored, toWorker, fromWorker,
                 worker, stopped, persisting, tracking, audit, stateQuery,
                 fullState, ui, boot, controls, commands, errorAdvances,
                 settings>>

\* A handler enters setupOffscreen and suspends on
\* `await chrome.runtime.getContexts(...)`.
SetupCalled(c) ==
  /\ setup.pc[c] = "idle"
  /\ setup' = [setup EXCEPT !.pc[c] = "getContexts"]
  /\ UNCHANGED offscreenDoc
  /\ SetupFrame

\* getContexts resolves.  With a context the flag is set and setupOffscreen
\* returns; with none chrome.offscreen.createDocument is called, and Chrome
\* carries the call out when there is no document and none is being
\* created.  Whether a document that is still being created is listed is
\* Chrome's choice.
ContextsResolved(c) ==
  /\ setup.pc[c] = "getContexts"
  /\ \E existing \in (IF setup.creating # {} THEN BOOLEAN ELSE {offscreenDoc}) :
       IF existing
         THEN setup' = [setup EXCEPT !.offscreenCreated = TRUE,
                                     !.pc[c] = "returned"]
         ELSE setup' = [setup EXCEPT
                          !.pc[c] = "createDocument",
                          !.creating = IF ~offscreenDoc /\ setup.creating = {}
                                         THEN {c} ELSE @]
  /\ UNCHANGED offscreenDoc
  /\ SetupFrame

\* createDocument resolves: the document exists, the flag is set and
\* setupOffscreen returns.
DocumentCreated(c) ==
  /\ setup.pc[c] = "createDocument" /\ c \in setup.creating
  /\ offscreenDoc' = TRUE
  /\ setup' = [setup EXCEPT !.offscreenCreated = TRUE, !.creating = {},
                            !.pc[c] = "returned"]
  /\ SetupFrame

\* createDocument rejects, an extension having one offscreen document at
\* most: the catch block clears the flag and rethrows.
CreateRejected(c) ==
  /\ setup.pc[c] = "createDocument" /\ c \notin setup.creating
  /\ setup' = [setup EXCEPT !.offscreenCreated = FALSE, !.pc[c] = "threw"]
  /\ UNCHANGED offscreenDoc
  /\ SetupFrame

\* The caller of setupOffscreen goes on, or fails with the error.
SetupLeft(c) ==
  /\ setup.pc[c] \in {"returned", "threw"}
  /\ setup' = [setup EXCEPT !.pc[c] = "idle"]
  /\ UNCHANGED offscreenDoc
  /\ SetupFrame

NextSetup ==
  \E c \in Callers :
    \/ SetupCalled(c) \/ ContextsResolved(c) \/ DocumentCreated(c)
    \/ CreateRejected(c) \/ SetupLeft(c)

\* ------------------------------------------------------ one clip followed
\* The state after a start found a bird and sent its playAudio request: the
\* handler awaits the response.
InitOneClip ==
  /\ currentBird = Min(Birds) /\ isPlaying = TRUE /\ isPaused = FALSE
  /\ region \in Regions /\ isWaiting = FALSE
  /\ waitingTimeout = NoTimer /\ waitingStartTime = NoTime
  /\ timers = {} /\ tasks = EmptyBag /\ stored = NoRecord
  /\ popupEvents = <<>> /\ offscreenDoc = TRUE
  /\ toWorker = <<[type |-> "playAudio", bird |-> Min(Birds)]>>
  /\ fromWorker = <<>>
  /\ audioElement = NoAudio /\ blobUrl = FALSE /\ downloads = EmptyBag
  /\ aborted = FALSE /\ orphans = 0
  /\ stopped = "" /\ lastStep = ""
  /\ persisting = FALSE /\ tracking = FALSE /\ auditing = FALSE
  /\ workerStopped = FALSE /\ blobLeaked = FALSE
  /\ stateQuery = NoQuery /\ fullState = NoReply
  /\ ui = NoUi /\ boot = NoBoot
  /\ controls = NoControls /\ commands = EmptyBag
  /\ setup = NoSetup
  /\ errorAdvances = [counting |-> TRUE, n |-> 0]
  /\ settings = NoSettings

\* The steps that can follow while no other playAudio request is sent: the
\* searches that are started stay unresolved or find nothing.
NextOneClip ==
  \/ CmdStop \/ CmdPause \/ CmdResume
  \/ EvAudioEnded \/ EvAudioError \/ EvAudioStarted \/ EvAudioPaused
  \/ EvAudioResumed \/ TimerFire
  \/ SearchEmpty \/ SaveState
  \/ RecvPlayAudio \/ DownloadFails \/ DownloadDone \/ PlayRejected
  \/ PlayAborted \/ PlayStarted \/ ResumeStarted \/ Progress
  \/ OnEnded \/ ElementError
  \/ RecvPauseAudio \/ RecvResumeAudio \/ RecvResumeRejected \/ RecvStopAudio

\* ------------------------------------------------- next during the wait
\* The state after a next command was received during the wait that
\* follows a clip: the clip's element rests at its end, the wait timer is
\* armed, handleNext is suspended in the search of playNext.
InitNextInWait ==
  /\ currentBird = Min(Birds) /\ isPlaying = TRUE /\ isPaused = FALSE
  /\ region \in Regions /\ isWaiting = TRUE
  /\ waitingTimeout = Min(TimerIds) /\ waitingStartTime = Now
  /\ timers = {Min(TimerIds)} /\ tasks = One(Searching) /\ stored = NoRecord
  /\ popupEvents = <<>> /\ offscreenDoc = TRUE
  /\ toWorker = <<>> /\ fromWorker = <<>>
  /\ audioElement = [loaded |-> TRUE, paused |-> TRUE, pos |-> 1,
                     ended |-> TRUE, pending |-> "none"]
  /\ blobUrl = TRUE /\ downloads = EmptyBag
  /\ aborted = FALSE /\ orphans = 0
  /\ stopped = "" /\ lastStep = "next"
  /\ persisting = FALSE /\ tracking = FALSE /\ auditing = FALSE
  /\ workerStopped = FALSE /\ blobLeaked = FALSE
  /\ stateQuery = NoQuery /\ fullState = NoReply
  /\ ui = NoUi /\ boot = NoBoot
  /\ controls = NoControls /\ commands = EmptyBag
  /\ setup = NoSetup /\ errorAdvances = NoCount
  /\ settings = NoSettings

\* The steps that can follow until a clip started from here ends: no other
\* command arrives, so no other wait begins.
NextAfterNext ==
  \/ TimerFire
  \/ SearchFound \/ SearchEmpty \/ PlayBirdAudio \/ SaveState
  \/ EvAudioError \/ EvAudioStarted
  \/ RecvPlayAudio \/ DownloadFails \/ DownloadDone \/ PlayRejected
  \/ PlayStarted \/ Progress

\* ------------------------------------------ UIClient: the waiting mirror
\* The popupEvent listener of PlaybackControls receives what the last step
\* of the Orchestrator notified: waitingStarted sets its isWaiting,
\* waitingCancelled clears it, every other event leaves it.
PopupEventHeard ==
  /\ ui.phase = "open"
  /\ popupEvents # <<>>
  /\ controls' =
       [controls EXCEPT !.isWaiting =
          IF Head(popupEvents) = "waitingStarted" THEN TRUE
          ELSE IF Head(popupEvents) = "waitingCancelled" THEN FALSE
          ELSE @]
  /\ popupEvents' = Tail(popupEvents)
  /\ lastStep' = lastStep
  /\ UNCHANGED <<session, timers, tasks, stored, offscreenDoc, toWorker,
                 fromWorker, worker, stopped, persisting, tracking, audit,
                 stateQuery, fullState, ui, boot, commands, setup,
                 errorAdvances, settings>>

\* The service worker has just started and the popup is open on the stopped
\* session, its sync done.
InitMirror ==
  /\ currentBird = NoBird /\ isPlaying = FALSE /\ isPaused = FALSE
  /\ region = "" /\ isWaiting = FALSE
  /\ waitingTimeout = NoTimer /\ waitingStartTime = NoTime
  /\ timers = {} /\ tasks = EmptyBag /\ stored = NoRecord
  /\ popupEvents = <<>> /\ offscreenDoc = FALSE
  /\ toWorker = <<>> /\ fromWorker = <<>>
  /\ audioElement = NoAudio /\ blobUrl = FALSE /\ downloads = EmptyBag
  /\ aborted = FALSE /\ orphans = 0
  /\ stopped = "" /\ lastStep = ""
  /\ persisting = FALSE /\ tracking = FALSE /\ auditing = FALSE
  /\ workerStopped = FALSE /\ blobLeaked = FALSE
  /\ stateQuery = NoQuery /\ fullState = NoReply /\ boot = NoBoot
  /\ ui = [phase |-> "open", again |-> FALSE, syncing |-> FALSE,
           request |-> "none", isPlaying |-> FALSE, isPaused |-> FALSE,
           currentBird |-> NoBird, region |-> "", isWaiting |-> FALSE]
  /\ controls = NoControls /\ commands = EmptyBag
  /\ setup = NoSetup /\ errorAdvances = NoCount
  /\ settings = NoSettings

\* ----------------------------------------------- UIClient: OptionsSection
\* What a step of the OptionsSection leaves alone.
SettingsFrame ==
  UNCHANGED <<session, timers, tasks, stored, popupEvents, offscreenDoc,
              toWorker, fromWorker, worker, stopped, lastStep, persisting,
              tracking, audit, stateQuery, fullState, ui, boot, controls,
              commands, setup, errorAdvances>>

\* loadSettings: `settings.autoResume !== false`, true unless the stored
\* value is `false`.
ShownAutoResume(pref) == ~(pref.set /\ ~pref.value)

\* OptionsSection mounts: useState(true), loadSettings suspended in
\* `await chrome.storage.sync.get(['autoResume'])`.
OptionsMounted ==
  /\ settings.phase = "closed"
  /\ settings' = [settings EXCEPT !.phase = "loading", !.shown = TRUE]
  /\ SettingsFrame

\* loadSettings after the read: setAutoResume(settings.autoResume !== false).
OptionsLoaded ==
  /\ settings.phase = "loading"
  /\ settings' = [settings EXCEPT !.phase = "shown",
                                  !.shown = ShownAutoResume(settings.autoResume)]
  /\ SettingsFrame

\* saveAutoResumeSetting(e.target.checked): the checkbox is clicked, the
\* value is stored and shown.
SaveAutoResumeSetting ==
  /\ settings.phase = "shown"
  /\ settings' = [settings EXCEPT
                    !.autoResume = [set |-> TRUE, value |-> ~settings.shown],
                    !.shown = ~settings.shown]
  /\ SettingsFrame

\* The popup closes and the OptionsSection unmounts.
OptionsClosed ==
  /\ settings.phase # "closed"
  /\ settings' = [settings EXCEPT !.phase = "closed", !.shown = TRUE]
  /\ SettingsFrame

NextOptions ==
  \/ NextRestore
  \/ OptionsMounted \/ OptionsLoaded \/ SaveAutoResumeSetting \/ OptionsClosed

\* ---------------------------------------------------------- specification
Next ==
  \/ CmdStart \/ CmdStop \/ CmdPause \/ CmdResume \/ CmdNext
  \/ EvAudioEnded \/ EvAudioError \/ EvAudioStarted \/ EvAudioPaused
  \/ EvAudioResumed \/ TimerFire
  \/ SearchFound \/ SearchEmpty \/ PlayBirdAudio \/ SaveState
  \/ RecvPlayAudio \/ DownloadFails \/ DownloadDone \/ PlayRejected
  \/ PlayAborted \/ PlayStarted \/ ResumeStarted \/ Progress
  \/ OnEnded \/ OrphanEnded
  \/ RecvPauseAudio \/ RecvResumeAudio \/ RecvResumeRejected \/ RecvStopAudio

\* A step of the system taken when the popup has heard every event.
AfterHearing == popupEvents = <<>> /\ Next

NextMirror == AfterHearing \/ PopupEventHeard

Spec == Init /\ [][Next]_vars

\* The same system with the storage writes recorded.
SpecStorage == InitStorage /\ [][Next]_vars

\* The same system with the history of stops recorded.
SpecStops == InitStops /\ [][Next]_vars

\* The same system with the history of the AudioWorker recorded.
SpecWorker == InitWorker /\ [][Next]_vars

\* The same system when the media an element was given can fail to decode.
SpecErrors == Init /\ [][Next \/ ElementError]_vars

\* The same system when the messages meant for other listeners reach the
\* offscreen listener too.
SpecListener == Init /\ [][Next \/ RecvOther]_vars

\* The same system when the search can yield its error sentinel.
SpecSentinel == Init /\ [][Next \/ SearchSentinel \/ ElementError]_vars

\* One playAudio request and everything that can follow it.
SpecOneClip == InitOneClip /\ [][NextOneClip]_vars

\* A next command handled during a wait and everything that follows it.
SpecNextInWait == InitNextInWait /\ [][NextAfterNext]_vars

\* The system with the popup open: each event the Orchestrator notifies is
\* heard by PlaybackControls before the next step.
SpecMirror == InitMirror /\ [][NextMirror]_vars

\* The restore beside a popup whose OptionsSection shows and changes the
\* autoResume preference.
SpecOptions == InitRestore /\ [][NextOptions]_vars

\* The state queries alone, from every session and element state.
SpecQuery == InitQuery /\ [][NextQuery]_vars

\* The restore alone, from every stored record and element state.
SpecRestore == InitRestore /\ [][NextRestore]_vars

\* The playback controls and the replies to their commands, from every
\* state a sync leaves the UIClient in.
SpecCommands == InitCommands /\ [][NextCommands]_vars

\* Concurrent calls of setupOffscreen alone, from a service worker that has
\* no offscreen document.
SpecSetup == Init /\ [][NextSetup]_vars

\* ------------------------------------------------------------ properties

\* C1: isPaused implies isPlaying in every reachable state, whatever the
\* interleaving of commands and AudioWorker events.
C1_PausedImpliesPlaying == isPaused => isPlaying

\* C2: currentBird = null implies isPlaying = false in every reachable
\* state, a start whose search finds no bird and an audioStarted that
\* arrives after a stop included.
C2_NoBirdImpliesNotPlaying == currentBird = NoBird => ~isPlaying

\* C3: isPaused and isWaiting are never both true, a pause command or an
\* audioPaused event handled during the wait included.
C3_PausedWaitingExclusive == ~(isPaused /\ isWaiting)

\* C4: a stop handled while the session waits cancels the pending timer,
\* clears isWaiting, notifies waitingCancelled and issues no search; and
\* from then until the next start no birdChanged is notified.
C4_StopCancelsWait ==
  [][ /\ (CmdStop /\ isWaiting =>
            /\ waitingTimeout \in timers
            /\ timers' = timers \ {waitingTimeout}
            /\ ~isWaiting' /\ waitingTimeout' = NoTimer
            /\ popupEvents' = <<"waitingCancelled">>
            /\ tasks' = tasks)
      /\ (stopped = "waiting" => popupEvents' # <<"birdChanged">>) ]_vars

\* C5: from a handled stop until the next start no playAudio is sent, no
\* currentBird is set and no birdChanged is notified, even when an advance
\* was in flight at the time of the stop.
C5_NoAdvanceAfterStop ==
  [][ stopped # "" =>
        /\ ~(/\ Len(toWorker') > Len(toWorker)
             /\ toWorker'[Len(toWorker')].type = "playAudio")
        /\ currentBird' = currentBird
        /\ popupEvents' # <<"birdChanged">> ]_vars

C7_AtMostOneTimer ==
  /\ [](/\ Cardinality(timers) <= 1
        /\ (isWaiting <=> timers # {})
        /\ (isWaiting => timers = {waitingTimeout}))
  /\ [][ /\ (Delivered(Event("audioEnded")) /\ isWaiting =>
               /\ UNCHANGED <<session, timers, tasks, toWorker, stored>>
               /\ popupEvents' = <<>>)
         /\ (lastStep' = "timerFire" => timers' = {} /\ ~isWaiting') ]_vars

\* A second audioEnded has been handled during a wait.
C7_Witness ==
  /\ lastStep = "audioEndedSkipped"
  /\ isPlaying /\ ~isPaused /\ isWaiting /\ timers = {waitingTimeout}

C9_PauseIdempotent ==
  /\ [](LET once == PauseAudio(audioElement)
            twice == PauseAudio(once.el)
        IN  /\ twice.el = once.el /\ twice.events = <<>>
            /\ once.events = IF audioElement.loaded /\ ~audioElement.paused
                               THEN <<Event("audioPaused")>> ELSE <<>>)
  /\ [][ /\ (CmdPause /\ isPaused => UNCHANGED session)
         /\ (Received("pauseAudio") /\ ~(audioElement.loaded /\ ~audioElement.paused) =>
               /\ UNCHANGED worker
               /\ fromWorker' = Append(fromWorker, Response("pauseAudio"))) ]_vars

\* Two pause requests in a row have been answered; the clip that was playing
\* is paused and the second request notified nothing.
C9_Witness ==
  /\ fromWorker = <<Response("pauseAudio"), Response("pauseAudio")>>
  /\ isPaused
  /\ audioElement.loaded /\ audioElement.paused
  /\ audioElement.pos = 1 /\ ~audioElement.ended

\* C10: a resumeAudio received while an element plays or none is loaded
\* changes nothing and notifies nothing; audioResumed is notified only when
\* the play() promise of a resumeAudio that found the element paused
\* resolves with the element playing, and not when play() is rejected.
C10_ResumeOnlyOnTransition ==
  /\ [](audioElement.pending = "resume" =>
          audioElement.loaded /\ ~audioElement.paused)
  /\ [][ LET Resumed(q) == Len(SelectSeq(q, LAMBDA m : m = Event("audioResumed")))
         IN  /\ (Received("resumeAudio") /\ ~(audioElement.loaded /\ audioElement.paused) =>
                   /\ UNCHANGED worker
                   /\ fromWorker' = Append(fromWorker, Response("resumeAudio")))
             /\ (Received("resumeAudio") /\ audioElement'.paused =>
                   fromWorker' = Append(fromWorker, Response("resumeAudio")))
             /\ (Resumed(fromWorker') > Resumed(fromWorker) =>
                   /\ audioElement.loaded /\ audioElement.pending = "resume"
                   /\ ~audioElement.paused
                   /\ audioElement'.loaded /\ ~audioElement'.paused
                   /\ audioElement'.pending = "none") ]_vars

\* A resumed clip is playing and its audioResumed is on its way.
C10_Witness ==
  /\ \E i \in DOMAIN fromWorker : fromWorker[i] = Event("audioResumed")
  /\ audioElement.loaded /\ ~audioElement.paused

\* C11: a stop command ends with isPlaying = false, isPaused = false,
\* currentBird = null and isWaiting = false, and with that state persisted,
\* whether the stopAudio request reached an AudioWorker or its send was
\* rejected and swallowed.  The handler ends in the step that runs its
\* saveState: the same step when no offscreen document exists, the delivery
\* of the stopAudio response otherwise.
C11_StopEndsIdleAndPersisted ==
  [][ /\ (CmdStop =>
            ~isPlaying' /\ ~isPaused' /\ currentBird' = NoBird /\ ~isWaiting')
      /\ ((CmdStop /\ ~offscreenDoc) \/ Delivered(Response("stopAudio")) =>
            /\ ~isPlaying' /\ ~isPaused' /\ currentBird' = NoBird /\ ~isWaiting'
            /\ stored' = [saved |-> TRUE, isPlaying |-> FALSE, isPaused |-> FALSE,
                          currentBird |-> NoBird, region |-> region']) ]_vars

\* C12: once the AudioWorker has handled stopAudio, getAudioState reports
\* nothing loaded (not playing, not paused, currentTime 0) until the next
\* playAudio request is received, a playAudio that was downloading when the
\* stopAudio arrived included.
C12_StoppedWorkerStaysEmpty ==
  workerStopped =>
    LET st == GetAudioState(audioElement)
    IN  ~st.isPlaying /\ ~st.isPaused /\ st.currentTime = 0

\* C13: at most one audio element is sounding and at most one blob URL is
\* unreleased, for any interleaving of playAudio requests.
C13_OneMediaLoad ==
  /\ orphans + Detached(audioElement) <= 1
  /\ ~blobLeaked

C16_OneRetryThenNeutral ==
  [][ /\ (stateQuery.pc \in {"setup", "sent"} /\ stateQuery' = NoQuery =>
            /\ stateQuery.attempts = 2
            /\ (Listening =>
                  fullState' = [kind |-> "state", isPlaying |-> isPlaying,
                                isPaused |-> isPaused,
                                currentBird |-> currentBird,
                                region |-> region, audioState |-> Neutral]))
      /\ (stateQuery' # NoQuery => stateQuery'.attempts \in {1, 2})
      /\ (fullState' # NoReply => fullState'.kind = "state") ]_vars

\* A reply made after the retry failed in setupOffscreen, with a session
\* that is playing.
C16_Witness ==
  /\ fullState.kind = "state" /\ ~offscreenDoc
  /\ fullState.audioState = Neutral
  /\ fullState.isPlaying /\ isPlaying

\* C17: with the session playing bird B after a start, destroying and
\* recreating the UIClient any number of times leaves the session's
\* isPlaying and currentBird as they are, and every getFullState reply the
\* UIClient gets carries currentBird = B and isPlaying = true, whatever the
\* AudioWorker reports and whether or not it can be reached.
C17_SyncOnReopen ==
  [][ /\ UNCHANGED <<isPlaying, currentBird>>
      /\ (isPlaying /\ currentBird \in Birds /\ fullState' # NoReply =>
            /\ fullState'.currentBird = currentBird
            /\ fullState'.isPlaying) ]_vars

\* The UIClient was destroyed and recreated while the session plays a bird
\* and the AudioWorker is between clips; the reply to its getFullState names
\* the bird and says playing.
C17_Witness ==
  /\ ui.phase = "open" /\ ui.again /\ ui.request = "handling"
  /\ isPlaying /\ currentBird \in Birds
  /\ fullState.kind = "state"
  /\ ~fullState.audioState.isPlaying
  /\ fullState.isPlaying /\ fullState.currentBird = currentBird

\* C18: every activation of the UIClient enters syncing and issues
\* getFullState; when the reply says isPlaying the UIClient adopts
\* currentBird, isPaused and region from it and isWaiting from the session
\* it describes, otherwise it resets to idle; syncing is false once the
\* reply or the failure of the request was handled.
C18_SyncSequence ==
  [][ /\ (Activate => ui'.syncing /\ ui'.request = "sent")
      /\ (UiSynced =>
            /\ ~ui'.syncing
            /\ IF fullState.isPlaying
               THEN /\ ui'.isPlaying
                    /\ ui'.currentBird = fullState.currentBird
                    /\ ui'.isPaused = fullState.isPaused
                    /\ ui'.region = fullState.region
                    /\ ui'.isWaiting = isWaiting
               ELSE /\ ~ui'.isPlaying /\ ~ui'.isPaused
                    /\ ui'.currentBird = NoBird)
      /\ (UiSyncFails => ~ui'.syncing) ]_vars

\* C19: when the stored session says playing (not paused) with a bird and
\* the AudioWorker is found idle, the restore resumes playback exactly when
\* shouldResumePlayback says so for the reason and the autoResume
\* preference ('unknown': always; 'startup' and 'installed': when
\* autoResume is true), and when it does not resume the session is reset to
\* idle and that reset is stored.
C19_ResumePolicy ==
  [][ boot.pc = "query" /\ boot'.pc = "done"
      /\ ~isPaused /\ ~boot'.reported.isPlaying =>
        LET resume == ShouldResumePlayback(boot.options, boot.reason)
        IN  /\ boot'.resumed = resume
            /\ ~resume =>
                 /\ ~isPlaying' /\ ~isPaused' /\ currentBird' = NoBird
                 /\ stored' = [saved |-> TRUE, isPlaying |-> FALSE,
                               isPaused |-> FALSE, currentBird |-> NoBird,
                               region |-> region'] ]_vars

\* C20: when the stored session says playing with a bird and the
\* AudioWorker reports that it is playing, the restore calls no
\* playBirdAudio, sends no playAudio, and leaves the session with the four
\* fields of the stored record.
C20_NoRestartWhenPlaying ==
  /\ [](boot.pc = "done" /\ boot.reported.isPlaying =>
          /\ ~boot.resumed /\ tasks = EmptyBag /\ toWorker = <<>>
          /\ isPlaying = stored.isPlaying /\ isPaused = stored.isPaused
          /\ currentBird = stored.currentBird /\ region = stored.region)
  /\ [][boot.pc = "query" /\ boot'.pc = "done" /\ boot'.reported.isPlaying =>
          UNCHANGED <<session, tasks, toWorker, stored>>]_vars

\* A restore that found the AudioWorker playing the stored bird.
C20_Witness ==
  /\ boot.pc = "done" /\ boot.reported.isPlaying
  /\ stored.saved /\ stored.isPlaying /\ stored.currentBird \in Birds
  /\ isPlaying /\ currentBird = stored.currentBird
  /\ audioElement.loaded /\ ~audioElement.paused

\* C21: whenever no command or event handler is in progress, the stored
\* playbackState record holds the session's isPlaying, isPaused,
\* currentBird and region.
C21_StoredMatchesSession ==
  InFlight = 0 =>
    /\ stored.isPlaying = isPlaying /\ stored.isPaused = isPaused
    /\ stored.currentBird = currentBird /\ stored.region = region

\* C22: every command the UIClient sends gets exactly one response: the
\* function that handles it never ends without having called sendResponse,
\* also when the AudioWorker cannot be created or the playAudio send fails.
C22_EveryCommandAnswered ==
  \A c \in BagToSet(commands) : c.pc # "dead"

\* C23: while the response to a start, stop, pause, resume or next is
\* outstanding every command control is disabled, so the UIClient never has
\* two of these commands in flight.
C23_LoadingGuard ==
  LET outstanding == {c \in BagToSet(commands) : c.type \in UiCommands}
  IN  /\ outstanding # {} =>
           ~(StartEnabled \/ PauseEnabled \/ ResumeEnabled
             \/ NextEnabled \/ StopEnabled)
      /\ \A c \in outstanding :
           CopiesIn(c, commands) = 1 /\ outstanding = {c}

\* C24: while the isWaiting of the playback controls is true, the next
\* control and the pause control are both disabled.
C24_WaitDisablesNextAndPause ==
  controls.isWaiting => ~NextEnabled /\ ~PauseEnabled

C27_NextBypassesWait ==
  [][ /\ (CmdNext =>
            /\ tasks' = tasks (+) One(Searching)
            /\ popupEvents' = <<>>
            /\ UNCHANGED <<isWaiting, waitingTimeout, waitingStartTime, timers>>)
      /\ (SearchFound \/ SearchEmpty \/ PlayBirdAudio \/ SaveState =>
            /\ UNCHANGED <<isWaiting, waitingTimeout, waitingStartTime, timers>>
            /\ \A i \in 1..Len(popupEvents') : popupEvents'[i] # "waitingStarted")
      /\ (SearchEmpty \/ Delivered(Response("playAudio")) =>
            /\ HandleNextReply'.success
            /\ HandleNextReply'.bird = currentBird'
            /\ currentBird' = currentBird) ]_vars

\* A next command was handled during a wait: its search is in flight, the
\* wait is still on and its timer is still armed.
C27_Witness ==
  /\ lastStep = "next"
  /\ CopiesIn(Searching, tasks) > 0
  /\ isWaiting /\ waitingTimeout \in timers

\* C28: creating the offscreen document is idempotent and single-flight:
\* in every interleaving of concurrent setupOffscreen calls at most one
\* createDocument call is pending while no document exists, and no caller
\* fails because another caller created the document first.
C28_SingleFlight ==
  /\ ~offscreenDoc =>
        Cardinality({c \in Callers : setup.pc[c] = "createDocument"}) <= 1
  /\ \A c \in Callers : setup.pc[c] # "threw"

\* C29: an audioEnded or audioError event handled while the session is not
\* active (isPlaying = false) or is paused triggers no search, no playAudio
\* request, no wait timer and no change of the session; nothing is stored
\* or notified either.
C29_IgnoredEventChangesNothing ==
  [][ ( /\ Delivered(Event("audioEnded")) \/ Delivered(Event("audioError"))
        /\ ~(isPlaying /\ ~isPaused) )
      => /\ tasks' = tasks
         /\ toWorker' = toWorker
         /\ timers' = timers
         /\ UNCHANGED session
         /\ stored' = stored /\ popupEvents' = <<>> ]_vars

\* An audioEnded or audioError has just been ignored by a paused session.
C29_Witness ==
  /\ lastStep = "ignored"
  /\ isPlaying /\ isPaused

\* C30: pause and resume change only isPaused: the handler leaves
\* currentBird, region, isPlaying, isWaiting and the pending wait timer as
\* they were, in its first step and in the saveState that follows the
\* AudioWorker's response; and both run to their saveState and their
\* {success: true} reply even when the AudioWorker is unreachable, the
\* rejected send being swallowed.
C30_PauseResumeOnlyIsPaused ==
  [][ /\ (CmdPause \/ CmdResume =>
            /\ UNCHANGED <<currentBird, region, isPlaying, isWaiting,
                           waitingTimeout, waitingStartTime, timers, tasks>>
            /\ (~offscreenDoc =>
                  /\ toWorker' = toWorker
                  /\ stored' = Snapshot'))
      /\ (CmdPause => isPaused')
      /\ (CmdResume => ~isPaused')
      /\ (Delivered(Response("pauseAudio")) \/ Delivered(Response("resumeAudio")) =>
            /\ UNCHANGED <<session, timers, tasks>>
            /\ stored' = Snapshot') ]_vars

\* A pause was handled with no offscreen document to reach: the handler
\* completed and saved a paused session.
C30_Witness ==
  /\ ~offscreenDoc
  /\ isPaused /\ stored.saved /\ stored.isPaused
  /\ InFlight = 0

\* C31: a message whose type is none of playAudio, pauseAudio, resumeAudio,
\* stopAudio, setVolume, getAudioState is ignored by the AudioWorker: no
\* response is sent, the element, the blob URL and the downloads stay as
\* they were, and the requests queued for the worker are not consumed.
C31_OtherMessagesIgnored ==
  [][ RecvOther =>
        /\ fromWorker' = fromWorker
        /\ toWorker' = toWorker
        /\ UNCHANGED <<audioElement, blobUrl, downloads, aborted, orphans>> ]_vars

\* A message for another listener reached the AudioWorker while a clip was
\* playing and a request was queued for it.
C31_Witness ==
  /\ lastStep = "delegated"
  /\ audioElement.loaded /\ ~audioElement.paused
  /\ toWorker # <<>>

\* C32: when the search yields the error sentinel (a Bird with a message
\* and an empty audioUrl) the Orchestrator never sends playAudio for it, and
\* the session is not driven into a play/fail/advance cycle: no playAudio
\* request carries the sentinel and no failure of its clip starts a search.
C32_SentinelNeverPlayed ==
  /\ \A i \in 1..Len(toWorker) :
        toWorker[i].type = "playAudio" => toWorker[i].bird # Sentinel
  /\ \A d \in BagToSet(downloads) : d.bird # Sentinel

\* C33: one failed playAudio causes at most one advance: while a single
\* clip has been requested, the audioError events of its failure start at
\* most one search, although the element's error listener and the catch
\* block of the rejected play() both notify.
C33_OneAdvancePerFailure == errorAdvances.n <= 1

\* C34: a next command handled while the session waits cancels the wait:
\* when the advance of next completes (birdChanged is notified) isWaiting is
\* false and no timer is pending, and the timer of the wait never fires, so
\* no timer-driven search, playAudio or birdChanged follows.
C34_NextCancelsWait ==
  [][ /\ (popupEvents' = <<"birdChanged">> => ~isWaiting' /\ timers' = {})
      /\ lastStep' # "timerFire" ]_vars

\* C35: while the session's isPaused is true the Orchestrator sends no
\* playAudio request: a request is appended to the queue for the AudioWorker
\* only in steps taken with isPaused false, the advance of a wait timer that
\* fires after a pause included.
C35_NoPlayAudioWhilePaused ==
  [][ ( /\ Len(toWorker') > 0
        /\ Len(toWorker') >= Len(toWorker)
        /\ toWorker' # toWorker
        /\ toWorker'[Len(toWorker')].type = "playAudio" )
      => ~isPaused ]_vars

\* C36: when the session's isPaused is false, getFullState never reports
\* isPaused = true, the wait gap included, in which the clip that ended is
\* still loaded in the AudioWorker.
C36_NotPausedNotReported ==
  [][ GetFullStateReturns /\ Listening /\ ~isPaused
        => ~fullState'.isPaused ]_vars

\* C37: the isWaiting mirror of PlaybackControls returns to false when a
\* wait completes normally: when the popup hears the birdChanged of an
\* advance and the session is not waiting, the mirror is false and the skip
\* control is not held disabled by it.
C37_MirrorClearsAfterWait ==
  [][ PopupEventHeard /\ Head(popupEvents) = "birdChanged" /\ ~isWaiting
        => ~controls'.isWaiting ]_vars

\* C38: no silent stuck session: whenever the session is active, not paused
\* and not waiting, and no handler, request, download or event is in flight,
\* the AudioWorker is playing a clip.
C38_NoSilentStuckSession ==
  /\ isPlaying /\ ~isPaused /\ ~isWaiting
  /\ InFlight = 0 /\ fromWorker = <<>>
  => audioElement.loaded /\ ~audioElement.paused

\* C39: the auto-resume preference the UIClient shows and the one the
\* Orchestrator applies agree for every stored value of autoResume (true,
\* false, never set): once the OptionsSection has loaded, its checkbox shows
\* what getOptions returns for the stored value.
C39_PreferenceAgrees ==
  settings.phase = "shown" =>
    settings.shown = GetOptions(settings.autoResume).autoResume

====
